---- MODULE Spec2Model ----
(***************************************************************************)
(* Polaris-Companion language server: the token catalog built at module    *)
(* load, the value resolver, the completion handler and the hover handler. *)
(*                                                                         *)
(* Three builds of the server are in the repository:                       *)
(*   "ranked"      src/src/server.ts lines 1-241   (fragment filter,       *)
(*                 relevance sort, hover on the offset within the line)    *)
(*   "bare"        src/src/server.ts lines 243-402 (bare-name insertion,   *)
(*                 no hover, closure-scoped resolver)                      *)
(*   "hoverOffset" src/unnamed/part_001            (bare-name insertion,   *)
(*                 hover on doc.offsetAt(position))                        *)
(* The variable `variant` says which build is deployed.                    *)
(*                                                                         *)
(* A string is a sequence of one-character strings.                        *)
(***************************************************************************)
EXTENDS Integers, Sequences, FiniteSets, TLC

VARIABLES
    variant,                        \* which build runs
    tokenGroups,                    \* the dataset: Object.entries order
    pc,                             \* "load" | "running" | "failed"
    tokenGroupCompletionItems,      \* group name -> sequence of items
    allTokenGroupCompletionItems,   \* the flat projection
    doc,                            \* the open document (lines) or NoDoc
    response                        \* the last request and its response

vars == <<variant, tokenGroups, pc, tokenGroupCompletionItems,
          allTokenGroupCompletionItems, doc, response>>

catalogVars == <<variant, tokenGroups, pc, tokenGroupCompletionItems,
                 allTokenGroupCompletionItems>>

----------------------------------------------------------------------------
(* JavaScript string primitives, on sequences of characters.               *)

Max(a, b) == IF a >= b THEN a ELSE b

Min(a, b) == IF a <= b THEN a ELSE b

\* String.prototype.startsWith
StartsWith(s, p) == Len(p) <= Len(s) /\ SubSeq(s, 1, Len(p)) = p

\* String.prototype.endsWith
EndsWith(s, p) == Len(p) <= Len(s) /\ SubSeq(s, Len(s) - Len(p) + 1, Len(s)) = p

\* String.prototype.includes: the empty string is included in every string
Includes(s, p) ==
    \E i \in 1..(Len(s) - Len(p) + 1) : SubSeq(s, i, i + Len(p) - 1) = p

\* String.prototype.indexOf, 1-based; 0 when absent
IndexOf(s, p) ==
    IF Includes(s, p)
    THEN CHOOSE i \in 1..(Len(s) - Len(p) + 1) :
            /\ SubSeq(s, i, i + Len(p) - 1) = p
            /\ \A j \in 1..(i - 1) : SubSeq(s, j, j + Len(p) - 1) # p
    ELSE 0

\* String.prototype.substring on 1-based inclusive bounds, clamped to the string
Sub(s, m, n) == SubSeq(s, Max(m, 1), Min(n, Len(s)))

\* String.prototype.slice(4, -1)
Slice4(s) == Sub(s, 5, Len(s) - 1)

WhiteSpace == {" ", "\t", "\n"}

\* String.prototype.trimEnd
RECURSIVE TrimEnd(_)
TrimEnd(s) ==
    IF Len(s) > 0 /\ s[Len(s)] \in WhiteSpace
    THEN TrimEnd(SubSeq(s, 1, Len(s) - 1))
    ELSE s

RECURSIVE TrimStart(_)
TrimStart(s) ==
    IF Len(s) > 0 /\ s[1] \in WhiteSpace THEN TrimStart(Tail(s)) ELSE s

\* String.prototype.trim
Trim(s) == TrimStart(TrimEnd(s))

\* String.prototype.split with a non-empty string separator
RECURSIVE Split(_, _)
Split(s, sep) ==
    LET i == IndexOf(s, sep) IN
    IF i = 0 THEN <<s>>
    ELSE <<SubSeq(s, 1, i - 1)>> \o Split(SubSeq(s, i + Len(sep), Len(s)), sep)

\* String.prototype.replace(p, "") with a string pattern: the first occurrence
ReplaceFirst(s, p) ==
    LET i == IndexOf(s, p) IN
    IF i = 0 THEN s
    ELSE SubSeq(s, 1, i - 1) \o SubSeq(s, i + Len(p), Len(s))

UpperCase == <<"A", "B", "C", "D", "E", "F", "G", "H", "I", "J", "K", "L", "M",
               "N", "O", "P", "Q", "R", "S", "T", "U", "V", "W", "X", "Y", "Z">>

LowerCase == <<"a", "b", "c", "d", "e", "f", "g", "h", "i", "j", "k", "l", "m",
               "n", "o", "p", "q", "r", "s", "t", "u", "v", "w", "x", "y", "z">>

\* String.prototype.toLowerCase
ToLowerCase(s) ==
    [i \in 1..Len(s) |->
        IF \E k \in 1..26 : UpperCase[k] = s[i]
        THEN LowerCase[CHOOSE k \in 1..26 : UpperCase[k] = s[i]]
        ELSE s[i]]

\* Array.prototype.flat of a sequence of sequences
RECURSIVE Flat(_)
Flat(seqs) == IF seqs = <<>> THEN <<>> ELSE Head(seqs) \o Flat(Tail(seqs))

----------------------------------------------------------------------------
(* Words of the program text.                                              *)

VarOpen == <<"v", "a", "r", "(">>

CloseParen == <<")">>

TwoHyphens == <<"-", "-">>

Hyphen == <<"-">>

Colon == <<":">>

Rem == <<"r", "e", "m">>

ZeroRem == <<"0", "r", "e", "m">>

\* " → ": the element "->" stands for the one character U+2192
Arrow == <<" ", "->", " ">>

Px == <<"p", "x">>

Em == <<"e", "m">>

----------------------------------------------------------------------------
(* @shopify/polaris-tokens: createVarName, isTokenName, toPx.  The package *)
(* is a dependency; its functions are modelled as the specification        *)
(* describes them (sections 3, 4.2 and 6).                                 *)

VarPrefix == <<"-", "-", "p", "-">>

\* the rendered custom-property name: a fixed prefix before the token name
createVarName(name) == VarPrefix \o name

Digits == <<"0", "1", "2", "3", "4", "5", "6", "7", "8", "9">>

IsDigit(c) == \E k \in 1..10 : Digits[k] = c

DigitVal(c) == (CHOOSE k \in 1..10 : Digits[k] = c) - 1

IsAlnum(c) ==
    \/ IsDigit(c)
    \/ \E k \in 1..26 : LowerCase[k] = c \/ UpperCase[k] = c

\* the naming-convention check: alphanumeric and hyphen, no leading "--"
isTokenName(name) ==
    /\ Len(name) > 0
    /\ \A i \in 1..Len(name) : IsAlnum(name[i]) \/ name[i] = "-"
    /\ ~StartsWith(name, TwoHyphens)

\* the length of the run of digits s starts with
RECURSIVE LeadingDigits(_)
LeadingDigits(s) ==
    IF Len(s) > 0 /\ IsDigit(s[1]) THEN 1 + LeadingDigits(Tail(s)) ELSE 0

\* the number a sequence of digits spells
RECURSIVE ParseNat(_)
ParseNat(ds) ==
    IF ds = <<>> THEN 0
    ELSE 10 * ParseNat(SubSeq(ds, 1, Len(ds) - 1)) + DigitVal(ds[Len(ds)])

\* the decimal spelling of a natural number
RECURSIVE NatToString(_)
NatToString(n) ==
    IF n < 10 THEN <<Digits[n + 1]>>
    ELSE NatToString(n \div 10) \o <<Digits[(n % 10) + 1]>>

BASE_FONT_SIZE == 16

\* the unit that follows the first digit a unit follows; <<>> when there is none
getUnit(value) ==
    LET UnitAt(i) ==
            IF Sub(value, i + 1, i + 2) = Px THEN Px
            ELSE IF Sub(value, i + 1, i + 2) = Em THEN Em
            ELSE IF Sub(value, i + 1, i + 3) = Rem THEN Rem
            ELSE <<>>
        Hit(i) == IsDigit(value[i]) /\ UnitAt(i) # <<>>
    IN  IF \E i \in 1..Len(value) : Hit(i)
        THEN UnitAt(CHOOSE i \in 1..Len(value) :
                        Hit(i) /\ \A j \in 1..(i - 1) : ~Hit(j))
        ELSE <<>>

\* the pixel equivalent at 1rem = 16px (whole numbers of rem)
toPx(value) ==
    LET unit == getUnit(value)
        n    == LeadingDigits(value)
    IN  IF unit = <<>> \/ unit = Px THEN value
        ELSE IF n = 0 THEN <<"N", "a", "N">> \o Px
        ELSE NatToString(ParseNat(SubSeq(value, 1, n)) * BASE_FONT_SIZE) \o Px

----------------------------------------------------------------------------
(* The dataset (metaThemeDefault): every group of the theme, each with its *)
(* tokens in declaration order.  The model draws the tokens from a pool.   *)

\* the keys of the theme, in the order the dataset declares them
GroupNames == <<"border", "breakpoints", "color", "font", "height", "motion",
                "shadow", "space", "text", "width", "zIndex">>

N_gap == <<"g", "a", "p">>

N_row_gap == <<"r", "o", "w", "-", "g", "a", "p">>

N_gap_row == <<"g", "a", "p", "-", "r", "o", "w">>

N_rowgap == <<"r", "o", "w", "g", "a", "p">>

N_bg == <<"b", "g">>

N_family == <<"f">>

N_body == <<"t">>

\* fails the naming convention: a leading "--"
N_bad == <<"-", "-", "x">>

V_1rem == <<"1", "r", "e", "m">>

V_2rem == <<"2", "r", "e", "m">>

V_hex == <<"#", "f">>

V_ref_gap == VarOpen \o createVarName(N_gap) \o CloseParen

V_ref_row_gap == VarOpen \o createVarName(N_row_gap) \o CloseParen

V_ref_gap_row == VarOpen \o createVarName(N_gap_row) \o CloseParen

\* a reference to --p-gaps that does not close its parenthesis
V_unclosed == VarOpen \o createVarName(N_gap) \o <<"s">>

Token(g, n, v, d) == [group |-> g, name |-> n, value |-> v, description |-> d]

TokenPool ==
    { Token("space", N_gap, V_1rem, <<"d">>),
      Token("space", N_row_gap, V_ref_gap, <<>>),
      Token("space", N_gap_row, ZeroRem, <<>>),
      Token("space", N_rowgap, V_ref_row_gap, <<>>),
      Token("color", N_bg, V_ref_gap_row, <<"d">>),
      Token("color", N_gap, V_unclosed, <<>>),
      Token("color", N_bad, V_hex, <<>>),
      Token("font", N_family, V_hex, <<>>),
      Token("text", N_body, V_hex, <<>>) }

\* the number of tokens of a dataset
MaxTokens == 2

\* sequences of at most n pool tokens; a group is an object: its keys are unique
RECURSIVE TokenSeqs(_)
TokenSeqs(n) ==
    IF n = 0 THEN {<<>>}
    ELSE LET shorter == TokenSeqs(n - 1) IN
         shorter \cup
         { Append(ts, t) : ts \in {x \in shorter : Len(x) = n - 1}, t \in TokenPool }

UniqueKeys(ts) ==
    \A i, j \in 1..Len(ts) :
        (ts[i].group = ts[j].group /\ ts[i].name = ts[j].name) => i = j

\* Object.entries of the dataset built from a sequence of tokens
Dataset(ts) ==
    [k \in 1..Len(GroupNames) |->
        LET InGroup(t) == t.group = GroupNames[k] IN
        [groupName |-> GroupNames[k],
         tokens    |-> [i \in 1..Len(SelectSeq(ts, InGroup)) |->
                           LET t == SelectSeq(ts, InGroup)[i] IN
                           [name |-> t.name, props |-> [value |-> t.value,
                                                description |-> t.description]]]]]

Datasets == { Dataset(ts) : ts \in {x \in TokenSeqs(MaxTokens) : UniqueKeys(x)} }

----------------------------------------------------------------------------
(* The value resolver.                                                     *)

\* every [name, props] entry of the dataset, groups then tokens in order
AllEntries == Flat([k \in 1..Len(tokenGroups) |-> tokenGroups[k].tokens])

\* the first entry that satisfies Hit; <<>> when none does
FirstEntry(Hit(_)) ==
    LET found == SelectSeq(AllEntries, Hit) IN
    IF found = <<>> THEN <<>> ELSE <<Head(found)>>

\* is the name looked up the rendered name of this entry
IsNamed(e, varName) == isTokenName(e.name) /\ createVarName(e.name) = varName

\* the closure-scoped resolver compares the rendered name alone
IsNamedClosure(e, varName) == createVarName(e.name) = varName

\* as getTokenValue, following the reference the referenced token holds
getTokenValueChased(value) ==
    LET Once(v) ==
            IF StartsWith(v, VarOpen)
            THEN LET Hit(e) == IsNamed(e, Slice4(v))
                     found  == FirstEntry(Hit)
                 IN  IF found # <<>> THEN found[1].props.value ELSE v
            ELSE v
    IN  Once(Once(value))

getTokenValue(value) ==
    IF StartsWith(value, VarOpen)
    THEN LET varName == Slice4(value)
             Hit(e)  == IsNamed(e, varName)
             found   == FirstEntry(Hit)
         IN  IF found # <<>> THEN found[1].props.value ELSE value
    ELSE value

getTokenValueClosure(value) ==
    IF StartsWith(value, VarOpen)
    THEN LET varName == Slice4(value)
             Hit(e)  == IsNamedClosure(e, varName)
             found   == FirstEntry(Hit)
         IN  IF found # <<>> THEN found[1].props.value ELSE value
    ELSE value

\* the resolver of the build that runs
Resolve(value) ==
    IF variant = "bare" THEN getTokenValueClosure(value) ELSE getTokenValue(value)

\* as HasPx, without the exception of "0rem"
HasPxZeroToo(resolvedValue) == Includes(resolvedValue, Rem)

\* does the detail carry a pixel equivalent
HasPx(resolvedValue) == Includes(resolvedValue, Rem) /\ resolvedValue # ZeroRem

WithPx(resolvedValue) ==
    resolvedValue \o <<" ", "(">> \o toPx(resolvedValue) \o <<")">>

formatDetail(value) ==
    LET resolvedValue == Resolve(value) IN
    IF HasPx(resolvedValue)
    THEN IF StartsWith(value, VarOpen)
         THEN value \o Arrow \o WithPx(resolvedValue)
         ELSE WithPx(resolvedValue)
    ELSE IF StartsWith(value, VarOpen)
         THEN value \o Arrow \o resolvedValue
         ELSE resolvedValue

----------------------------------------------------------------------------
(* Catalog construction, at module load.                                   *)

\* the text a completion inserts: the wrapped reference, or the bare name
InsertText(label) ==
    IF variant = "ranked" THEN VarOpen \o label \o CloseParen ELSE label

CompletionItem(tokenGroupName, tokenName, tokenProperties) ==
    [label         |-> createVarName(tokenName),
     insertText    |-> InsertText(createVarName(tokenName)),
     detail        |-> formatDetail(tokenProperties.value),
     documentation |-> tokenProperties.description,
     filterText    |-> createVarName(tokenName),
     kind          |-> IF tokenGroupName = "color" THEN "Color" ELSE "Variable"]

\* the map over a token name that fails isTokenName throws
Throws == \E i \in 1..Len(AllEntries) : ~isTokenName(AllEntries[i].name)

\* Object.entries of tokenGroupCompletionItems
BuildCompletionItems ==
    [k \in 1..Len(tokenGroups) |->
        [groupName |-> tokenGroups[k].groupName,
         items     |-> [i \in 1..Len(tokenGroups[k].tokens) |->
                           CompletionItem(tokenGroups[k].groupName,
                                          tokenGroups[k].tokens[i].name,
                                          tokenGroups[k].tokens[i].props)]]]

\* Object.values(...).flat()
FlatItems(entries) == Flat([k \in 1..Len(entries) |-> entries[k].items])

\* tokenGroupCompletionItems[tokenGroupName]
ItemsOf(tokenGroupName) ==
    LET Named(e) == e.groupName = tokenGroupName
        found    == SelectSeq(tokenGroupCompletionItems, Named)
    IN  IF found = <<>> THEN <<>> ELSE found[1].items

NoResponse == [op |-> "none"]

Variants == {"ranked", "bare", "hoverOffset"}

NoDoc == [open |-> FALSE, lines |-> <<>>]

Init ==
    /\ variant \in Variants
    /\ tokenGroups \in Datasets
    /\ pc = "load"
    /\ tokenGroupCompletionItems = <<>>
    /\ allTokenGroupCompletionItems = <<>>
    /\ doc = NoDoc
    /\ response = NoResponse

\* the module is evaluated: the catalog is built, or the load throws
Load ==
    /\ pc = "load"
    /\ IF Throws
       THEN /\ pc' = "failed"
            /\ UNCHANGED <<tokenGroupCompletionItems, allTokenGroupCompletionItems>>
       ELSE /\ pc' = "running"
            /\ tokenGroupCompletionItems' = BuildCompletionItems
            /\ allTokenGroupCompletionItems' = FlatItems(BuildCompletionItems)
    /\ UNCHANGED <<variant, tokenGroups, doc, response>>

----------------------------------------------------------------------------
(* The documents (vscode-languageserver-textdocument): a document is its   *)
(* lines; positions are zero-based.                                        *)

\* doc.getText of line `line` from character 0 to `character`
LineText(lines, line, character) ==
    IF line < Len(lines)
    THEN Sub(lines[line + 1], 1, Max(character, 0))
    ELSE <<>>

\* the end character the handlers pass to read a whole line
WholeLine == 1000

\* the offset at which line `line` starts: every earlier line and its line break
RECURSIVE LineOffset(_, _)
LineOffset(lines, line) ==
    IF line = 0 THEN 0
    ELSE LineOffset(lines, line - 1) + Len(lines[line]) + 1

\* doc.offsetAt(position)
offsetAt(lines, line, character) ==
    IF line >= Len(lines) THEN LineOffset(lines, Len(lines)) - 1
    ELSE LineOffset(lines, line) + Min(Max(character, 0), Len(lines[line + 1]))

----------------------------------------------------------------------------
(* The context classifier.                                                 *)

\* Object.entries of tokenGroupPatterns: a pattern is its alternatives, in order
tokenGroupPatterns ==
    <<
      [groupName |-> "border",
       pattern |-> <<
            <<"b", "o", "r", "d", "e", "r">>>>],
      [groupName |-> "breakpoints",
       pattern |-> <<
            <<"w", "i", "d", "t", "h">>>>],
      [groupName |-> "color",
       pattern |-> <<
            <<"c", "o", "l", "o", "r">>,
            <<"b", "a", "c", "k", "g", "r", "o", "u", "n", "d">>,
            <<"s", "h", "a", "d", "o", "w">>,
            <<"b", "o", "r", "d", "e", "r">>,
            <<"c", "o", "l", "u", "m", "n", "-", "r", "u", "l", "e">>,
            <<"f", "i", "l", "t", "e", "r">>,
            <<"o", "p", "a", "c", "i", "t", "y">>,
            <<"o", "u", "t", "l", "i", "n", "e">>,
            <<"t", "e", "x", "t", "-", "d", "e", "c", "o", "r", "a", "t", "i", "o", "n">>>>],
      [groupName |-> "text",
       pattern |-> <<
            <<"f", "o", "n", "t">>,
            <<"l", "e", "t", "t", "e", "r", "-", "s", "p", "a", "c", "i", "n", "g">>,
            <<"l", "i", "n", "e", "-", "h", "e", "i", "g", "h", "t">>>>],
      [groupName |-> "font",
       pattern |-> <<
            <<"f", "o", "n", "t">>,
            <<"l", "e", "t", "t", "e", "r", "-", "s", "p", "a", "c", "i", "n", "g">>,
            <<"l", "i", "n", "e", "-", "h", "e", "i", "g", "h", "t">>>>],
      [groupName |-> "height",
       pattern |-> <<
            <<"h", "e", "i", "g", "h", "t">>,
            <<"m", "i", "n", "-", "h", "e", "i", "g", "h", "t">>,
            <<"m", "a", "x", "-", "h", "e", "i", "g", "h", "t">>>>],
      [groupName |-> "motion",
       pattern |-> <<
            <<"a", "n", "i", "m", "a", "t", "i", "o", "n">>>>],
      [groupName |-> "shadow",
       pattern |-> <<
            <<"s", "h", "a", "d", "o", "w">>>>],
      [groupName |-> "space",
       pattern |-> <<
            <<"m", "a", "r", "g", "i", "n">>,
            <<"p", "a", "d", "d", "i", "n", "g">>,
            <<"g", "a", "p">>,
            <<"t", "o", "p">>,
            <<"l", "e", "f", "t">>,
            <<"r", "i", "g", "h", "t">>,
            <<"b", "o", "t", "t", "o", "m">>>>],
      [groupName |-> "width",
       pattern |-> <<
            <<"w", "i", "d", "t", "h">>,
            <<"m", "i", "n", "-", "w", "i", "d", "t", "h">>,
            <<"m", "a", "x", "-", "w", "i", "d", "t", "h">>>>],
      [groupName |-> "zIndex",
       pattern |-> <<
            <<"z", "-", "i", "n", "d", "e", "x">>>>]
    >>

\* RegExp.prototype.test of an alternation of literals
Test(pattern, text) == \E k \in 1..Len(pattern) : Includes(text, pattern[k])

----------------------------------------------------------------------------
(* The completion ranker.                                                  *)

getTokenScore(property, tokenName) ==
    LET lowProperty   == ToLowerCase(property)
        lowTokenName  == ToLowerCase(tokenName)
        propertyName  == Trim(Split(lowProperty, Colon)[1])
        propertyParts == Split(propertyName, Hyphen)
        exact == IF Includes(lowTokenName, ReplaceFirst(propertyName, Hyphen))
                 THEN 100 ELSE 0
        Matched(part) == Includes(lowTokenName, part)
    IN  exact + 50 * Len(SelectSeq(propertyParts, Matched))

\* String.fromCharCode: one UTF-16 code unit
fromCharCode(n) == <<n % 65536>>

\* String.prototype.padStart(3, "a"); a string of code units
padStart3(str) == [i \in 1..Max(3 - Len(str), 0) |-> 97] \o str

sortTextOf(score) == padStart3(fromCharCode(97 + Max(999 - score, 0)))

(* String.prototype.localeCompare is the collation of the runtime's ICU    *)
(* (the root collation of CLDR).  A code unit has a primary weight, zero   *)
(* when the collation ignores it at the first level, and a secondary one.  *)
(* The table holds the code units 97 + 999 - score of the scores 0, 50,    *)
(* ..., 250 and the pad:                                                   *)
(*    97  a  Latin                       846  U+034E combining mark        *)
(*   946  U+03B2 Greek small beta        896  U+0380 not assigned          *)
(*   996  U+03E4 Coptic capital fei     1046  U+0416 Cyrillic capital zhe  *)
(*  1096  U+0448 Cyrillic small sha                                        *)
(* Scripts sort Latin, Greek, Coptic, Cyrillic; zhe comes before sha; a    *)
(* code point that is not assigned has an implicit weight after every      *)
(* script; a combining mark has no primary weight.                         *)
CollationPrimary(c) ==
    CASE c = 846  -> 0
      [] c = 97   -> 1
      [] c = 946  -> 2
      [] c = 996  -> 3
      [] c = 1046 -> 4
      [] c = 1096 -> 5
      [] c = 896  -> 6

CollationSecondary(c) == IF c = 846 THEN 1 ELSE 0

\* lexicographic comparison of two sequences of numbers: -1, 0 or 1
RECURSIVE CompareSeq(_, _)
CompareSeq(a, b) ==
    IF a = <<>> /\ b = <<>> THEN 0
    ELSE IF a = <<>> THEN -1
    ELSE IF b = <<>> THEN 1
    ELSE IF Head(a) < Head(b) THEN -1
    ELSE IF Head(a) > Head(b) THEN 1
    ELSE CompareSeq(Tail(a), Tail(b))

localeCompare(a, b) ==
    LET NotIgnored(w) == w # 0
        Primary(str)   == SelectSeq([i \in 1..Len(str) |-> CollationPrimary(str[i])],
                                    NotIgnored)
        Secondary(str) == [i \in 1..Len(str) |-> CollationSecondary(str[i])]
        first == CompareSeq(Primary(a), Primary(b))
    IN  IF first # 0 THEN first ELSE CompareSeq(Secondary(a), Secondary(b))

\* Array.prototype.sort is stable: x goes after the elements that do not follow it
RECURSIVE SortBySortText(_)
SortBySortText(items) ==
    IF items = <<>> THEN <<>>
    ELSE LET x      == items[Len(items)]
             sorted == SortBySortText(SubSeq(items, 1, Len(items) - 1))
             After(e) == localeCompare(e.sortText, x.sortText) > 0
         IN  IF \E i \in 1..Len(sorted) : After(sorted[i])
             THEN LET j == CHOOSE i \in 1..Len(sorted) :
                              After(sorted[i]) /\ \A h \in 1..(i - 1) : ~After(sorted[h])
                  IN  SubSeq(sorted, 1, j - 1) \o <<x>> \o SubSeq(sorted, j, Len(sorted))
             ELSE Append(sorted, x)

\* the text after the last "--", or "" when the line ends with it
PartialText(trimmedLine) ==
    LET pieces == Split(trimmedLine, TwoHyphens) IN pieces[Len(pieces)]

\* the items whose label contains the fragment, whatever the case
FilterItems(items, partialText) ==
    LET Keep(item) == Includes(ToLowerCase(item.label), ToLowerCase(partialText))
    IN  IF partialText # <<>> THEN SelectSeq(items, Keep) ELSE items

\* as MatchedItems, without the test of the pattern
RECURSIVE MatchedItemsUntested(_, _, _)
MatchedItemsUntested(patterns, fullLineText, partialText) ==
    IF patterns = <<>> THEN <<>>
    ELSE FilterItems(ItemsOf(Head(patterns).groupName), partialText)
         \o MatchedItemsUntested(Tail(patterns), fullLineText, partialText)

\* the loop over the patterns: the filtered items of every group whose pattern matches
RECURSIVE MatchedItems(_, _, _)
MatchedItems(patterns, fullLineText, partialText) ==
    IF patterns = <<>> THEN <<>>
    ELSE LET entry == Head(patterns)
             rest  == MatchedItems(Tail(patterns), fullLineText, partialText)
         IN  IF ~Test(entry.pattern, fullLineText) THEN rest
             ELSE FilterItems(ItemsOf(entry.groupName), partialText) \o rest

\* as SortedItems, without the fallback to the whole catalog
SortedItemsNoFallback(fullLineText, partialText) ==
    MatchedItems(tokenGroupPatterns, fullLineText, partialText)

\* the matched items, or the whole catalog filtered when there are none
SortedItems(fullLineText, partialText) ==
    LET matchedCompletionItems ==
            MatchedItems(tokenGroupPatterns, fullLineText, partialText)
    IN  IF Len(matchedCompletionItems) > 0 THEN matchedCompletionItems
        ELSE FilterItems(allTokenGroupCompletionItems, partialText)

\* item with its sortText: a fresh object
WithSortText(item, fullLineText) ==
    [label         |-> item.label,
     insertText    |-> item.insertText,
     detail        |-> item.detail,
     documentation |-> item.documentation,
     filterText    |-> item.filterText,
     kind          |-> item.kind,
     sortText      |-> sortTextOf(getTokenScore(fullLineText, item.label))]

\* as Triggered, with the gate left open
TriggeredAlways(currentLine) == TRUE

\* does the trigger gate let the request through
Triggered(currentLine) == Includes(TrimEnd(currentLine), TwoHyphens)

\* the array sortedItems names: concat and filter build a fresh array; with no
\* match and no fragment it is allTokenGroupCompletionItems itself
SortedItemsArray(fullLineText, partialText) ==
    IF Len(MatchedItems(tokenGroupPatterns, fullLineText, partialText)) > 0
    THEN "fresh"
    ELSE IF partialText # <<>> THEN "fresh"
    ELSE "allTokenGroupCompletionItems"

\* as MapArray, writing the mapped items into the array it is given
MapArrayInPlace(array) == array

\* the array Array.prototype.map returns: a fresh one, of fresh objects
MapArray(array) == "fresh"

\* the array that Array.prototype.sort reorders in place
SortReceiver(line, character) ==
    LET currentLine  == LineText(doc.lines, line, character)
        fullLineText == LineText(doc.lines, line, WholeLine)
    IN  IF ~doc.open \/ ~Triggered(currentLine) THEN "none"
        ELSE MapArray(SortedItemsArray(fullLineText,
                                       PartialText(TrimEnd(currentLine))))

\* connection.onCompletion of the ranked build
onCompletion(line, character) ==
    IF ~doc.open THEN <<>>
    ELSE LET currentLine  == LineText(doc.lines, line, character)
             trimmedLine  == TrimEnd(currentLine)
             fullLineText == LineText(doc.lines, line, WholeLine)
             sortedItems  == SortedItems(fullLineText, PartialText(trimmedLine))
         IN  IF ~Triggered(currentLine) THEN <<>>
             ELSE SortBySortText([i \in 1..Len(sortedItems) |->
                                     WithSortText(sortedItems[i], fullLineText)])

\* the trigger gate of the builds that insert the bare name
TriggeredBare(currentLine) == EndsWith(TrimEnd(currentLine), TwoHyphens)

\* connection.onCompletion of the builds that insert the bare name
onCompletionBare(line, character) ==
    IF ~doc.open THEN <<>>
    ELSE LET currentLine  == LineText(doc.lines, line, character)
             fullLineText == LineText(doc.lines, line, WholeLine)
             matchedCompletionItems ==
                 MatchedItems(tokenGroupPatterns, fullLineText, <<>>)
         IN  IF ~TriggeredBare(currentLine) THEN <<>>
             ELSE IF Len(matchedCompletionItems) > 0 THEN matchedCompletionItems
             ELSE allTokenGroupCompletionItems

----------------------------------------------------------------------------
(* The hover locator.                                                      *)

\* the first index from `from` on at which text holds c; 0 when there is none
RECURSIVE IndexOfChar(_, _, _)
IndexOfChar(text, c, from) ==
    IF from > Len(text) THEN 0
    ELSE IF text[from] = c THEN from
    ELSE IndexOfChar(text, c, from + 1)

\* text.matchAll(/var\(([^)]+)\)/g): index (zero-based), the match, its group 1
RECURSIVE MatchAll(_, _)
MatchAll(text, from) ==
    IF from + 3 > Len(text) THEN <<>>
    ELSE LET close == IndexOfChar(text, ")", from + 4) IN
         IF SubSeq(text, from, from + 3) = VarOpen /\ close > from + 4
         THEN <<[index |-> from - 1,
                 text  |-> SubSeq(text, from, close),
                 name  |-> SubSeq(text, from + 4, close - 1)]>>
              \o MatchAll(text, close + 1)
         ELSE MatchAll(text, from + 1)

\* Array.prototype.join("\n\n") of the parts that are not empty
RECURSIVE JoinParts(_)
JoinParts(parts) ==
    IF parts = <<>> THEN <<>>
    ELSE IF Len(parts) = 1 THEN parts[1]
    ELSE parts[1] \o <<"\n", "\n">> \o JoinParts(Tail(parts))

Stars == <<"*", "*">>

\* the element "grave" stands for the one character U+0060
Backtick == <<"grave">>

PolarisTag == <<"[", "P", "o", "l", "a", "r", "i", "s", "]", " ">>

\* the heading: the catalog name after "[Polaris] ", or the name as written
Heading(name, varName) ==
    IF variant = "ranked" THEN Stars \o PolarisTag \o name \o Stars
    ELSE Stars \o varName \o Stars

\* the hover the handlers return for an entry of the dataset
Contents(entry, varName) ==
    LET NotEmpty(str) == str # <<>> IN
    [kind  |-> "markdown",
     value |-> JoinParts(SelectSeq(<<Heading(entry.name, varName),
                                     entry.props.description,
                                     Backtick \o formatDetail(entry.props.value) \o Backtick
                                   >>, NotEmpty))]

\* the loop over the matches: the first one at the position that names a token
HoverAt(text, position) ==
    LET matches == MatchAll(text, 1)
        Known(varName) == \E i \in 1..Len(AllEntries) : IsNamed(AllEntries[i], varName)
        Answers(match) ==
            /\ position >= match.index
            /\ position <= match.index + Len(match.text)
            /\ Known(Trim(match.name))
        found == SelectSeq(matches, Answers)
    IN  IF found = <<>> THEN <<>>
        ELSE LET varName == Trim(found[1].name)
                 Hit(e)  == IsNamed(e, varName)
             IN  <<Contents(FirstEntry(Hit)[1], varName)>>

\* connection.onHover of the ranked build: <<>> is null
onHover(line, character) ==
    IF ~doc.open THEN <<>>
    ELSE HoverAt(LineText(doc.lines, line, WholeLine), character)

\* connection.onHover of the build that compares doc.offsetAt(position)
onHoverOffsetAt(line, character) ==
    IF ~doc.open THEN <<>>
    ELSE HoverAt(LineText(doc.lines, line, WholeLine),
                 offsetAt(doc.lines, line, character))

----------------------------------------------------------------------------
(* The documents the editor opens and the requests it sends.               *)

L_row_gap == <<"r", "o", "w", "-", "g", "a", "p", ":", " ", "-", "-", "O", " ">>

L_color == <<"c", "o", "l", "o", "r", ":", "-", "-", "O">>

L_plain == <<"x", ":", "-", "-">>

L_refs == <<"v", "a", "r", "(", "-", "-", "p", "-", "g", "a", "p", ")", "v", "a", "r", "(", " ", "-", "-", "p", "-", "b", "g", ")">>

L_font == <<"f", "o", "n", "t", ":", "-", "-">>

DocPool == { <<L_row_gap>>, <<L_color, L_plain>>, <<L_refs, L_refs>>, <<L_font>> }

\* the positions a request names: every character of a line, and one past its end
Positions ==
    IF doc.open
    THEN UNION { { <<l, c>> : c \in 0..(Len(doc.lines[l + 1]) + 1) } :
                 l \in 0..(Len(doc.lines) - 1) }
    ELSE { <<0, 0>> }

\* textDocument/didOpen, didChange
DidOpen ==
    /\ pc = "running"
    /\ response = NoResponse
    /\ \E lines \in DocPool : doc' = [open |-> TRUE, lines |-> lines]
    /\ UNCHANGED response
    /\ UNCHANGED catalogVars

\* textDocument/didClose
DidClose ==
    /\ pc = "running"
    /\ response = NoResponse
    /\ doc.open
    /\ doc' = NoDoc
    /\ UNCHANGED response
    /\ UNCHANGED catalogVars

\* textDocument/completion
Completion ==
    /\ pc = "running"
    /\ response = NoResponse
    /\ \E p \in Positions :
         /\ response' = [op        |-> "completion",
                         line      |-> p[1],
                         character |-> p[2],
                         result    |-> IF variant = "ranked"
                                       THEN onCompletion(p[1], p[2])
                                       ELSE onCompletionBare(p[1], p[2])]
         /\ allTokenGroupCompletionItems' =
                IF variant = "ranked"
                   /\ SortReceiver(p[1], p[2]) = "allTokenGroupCompletionItems"
                THEN onCompletion(p[1], p[2])
                ELSE allTokenGroupCompletionItems
    /\ UNCHANGED <<variant, tokenGroups, pc, tokenGroupCompletionItems, doc>>

\* textDocument/hover; the bare build registers no hover handler
Hover ==
    /\ pc = "running"
    /\ response = NoResponse
    /\ variant # "bare"
    /\ \E p \in Positions :
         /\ response' = [op        |-> "hover",
                         line      |-> p[1],
                         character |-> p[2],
                         result    |-> IF variant = "ranked"
                                       THEN onHover(p[1], p[2])
                                       ELSE onHoverOffsetAt(p[1], p[2])]
    /\ UNCHANGED <<catalogVars, doc>>

\* the response goes out to the editor; the handler keeps nothing of it
Reply ==
    /\ response # NoResponse
    /\ response' = NoResponse
    /\ UNCHANGED <<catalogVars, doc>>

Next == Load \/ DidOpen \/ DidClose \/ Completion \/ Hover \/ Reply

Spec == Init /\ [][Next]_vars

----------------------------------------------------------------------------
(* The value resolver on its own: it is applied to a raw value.            *)

V_ref_rowgap == VarOpen \o createVarName(N_rowgap) \o CloseParen

RawValues ==
    { V_1rem, V_2rem, ZeroRem, V_hex, V_ref_gap, V_ref_row_gap, V_ref_gap_row,
      V_ref_rowgap, V_unclosed }

\* getTokenValue(value), of the build that runs
ResolveValue ==
    /\ pc = "running"
    /\ response = NoResponse
    /\ \E value \in RawValues :
         response' = [op |-> "resolve", value |-> value, result |-> Resolve(value)]
    /\ UNCHANGED <<catalogVars, doc>>

NextResolver == Load \/ ResolveValue \/ Reply

SpecResolver == Init /\ [][NextResolver]_vars

----------------------------------------------------------------------------
(* What the claims speak of.                                               *)

Range(seq) == { seq[i] : i \in 1..Len(seq) }

IsCompletion == response.op = "completion" /\ doc.open

IsHover == response.op = "hover" /\ doc.open

\* the request's line, whole and up to the cursor
ReqFullLine == LineText(doc.lines, response.line, WholeLine)

ReqLineToCursor == LineText(doc.lines, response.line, response.character)

\* the typed fragment: what follows the last "--" before the cursor
ReqFragment == PartialText(TrimEnd(ReqLineToCursor))

\* the groups whose pattern matches the text
MatchedGroups(text) ==
    { tokenGroupPatterns[k].groupName : k \in
        { j \in 1..Len(tokenGroupPatterns) :
            \E a \in Range(tokenGroupPatterns[j].pattern) : Includes(text, a) } }

\* the catalog's candidates of a set of groups
PoolOf(groups) == UNION { Range(ItemsOf(g)) : g \in groups }

\* the label contains the fragment, whatever the case
LabelHas(item, fragment) ==
    Includes(ToLowerCase(item.label), ToLowerCase(fragment))

\* a returned candidate without its per-request sortText
Candidate(r) ==
    [label |-> r.label, insertText |-> r.insertText, detail |-> r.detail,
     documentation |-> r.documentation, filterText |-> r.filterText,
     kind |-> r.kind]

\* the matched groups still hold a candidate after the fragment filter
NarrowedPoolLeft ==
    \E item \in PoolOf(MatchedGroups(ReqFullLine)) : LabelHas(item, ReqFragment)

(* C1: when the line matches a group pattern and the fragment filter leaves a
   candidate in the matched groups, every candidate the ranked completion
   handler returns belongs to a group whose pattern matched the line. *)
C1_OnlyMatchedGroups ==
    (IsCompletion /\ variant = "ranked" /\ MatchedGroups(ReqFullLine) # {}
        /\ NarrowedPoolLeft)
    => \A i \in 1..Len(response.result) :
          Candidate(response.result[i]) \in PoolOf(MatchedGroups(ReqFullLine))

\* a narrowed, non-empty result while another group holds a candidate with the fragment
C1_Witness ==
    /\ IsCompletion /\ variant = "ranked"
    /\ MatchedGroups(ReqFullLine) # {} /\ NarrowedPoolLeft
    /\ response.result # <<>>
    /\ \E item \in Range(allTokenGroupCompletionItems) :
          /\ item \notin PoolOf(MatchedGroups(ReqFullLine))
          /\ LabelHas(item, ReqFragment)

(* C3: when the trigger gate passes, the ranked result is empty exactly when
   no label of the whole catalog contains the typed fragment; when the matched
   groups hold no fragment match, or no pattern matches, the result is the
   whole catalog filtered by the fragment. *)
C3_EmptyOnlyWithoutMatch ==
    (IsCompletion /\ variant = "ranked" /\ Includes(ReqLineToCursor, TwoHyphens))
    => /\ (response.result = <<>>) <=>
              ~\E item \in Range(allTokenGroupCompletionItems) :
                  LabelHas(item, ReqFragment)
       /\ ~NarrowedPoolLeft =>
              /\ { Candidate(r) : r \in Range(response.result) }
                    = { item \in Range(allTokenGroupCompletionItems) :
                            LabelHas(item, ReqFragment) }
              /\ Len(response.result)
                    = Len(SelectSeq(allTokenGroupCompletionItems,
                                    LAMBDA item : LabelHas(item, ReqFragment)))

\* the fallback case: a pattern matched, its groups have no fragment match, another group does
C3_Witness ==
    /\ IsCompletion /\ variant = "ranked" /\ Includes(ReqLineToCursor, TwoHyphens)
    /\ MatchedGroups(ReqFullLine) # {}
    /\ PoolOf(MatchedGroups(ReqFullLine)) # {}
    /\ ReqFragment # <<>>
    /\ ~NarrowedPoolLeft
    /\ response.result # <<>>

(* C4: a completion request whose line holds no "--" before the cursor is
   answered with the empty sequence, in every build, and the step changes
   neither the catalog nor the document. *)
C4_NoMarkerNoCandidates ==
    /\ [](IsCompletion /\ ~Includes(ReqLineToCursor, TwoHyphens)
            => response.result = <<>>)
    /\ [][response'.op = "completion" => UNCHANGED <<catalogVars, doc>>]_vars

\* a request without the marker on a line that a pattern matches, with a catalog to offer
C4_Witness ==
    /\ IsCompletion /\ ~Includes(ReqLineToCursor, TwoHyphens)
    /\ response.character > 0
    /\ PoolOf(MatchedGroups(ReqFullLine)) # {}
    /\ response.result = <<>>

\* the property name of the line: lower case, before the first colon, trimmed
PropertyName(text) == Trim(Split(ToLowerCase(text), Colon)[1])

\* a string with its hyphens stripped
Stripped(str) == SelectSeq(str, LAMBDA c : c # "-")

\* the label, hyphens stripped, contains the whole property name, hyphens stripped
HasFullName(r, text) ==
    Includes(Stripped(ToLowerCase(r.label)), Stripped(PropertyName(text)))

\* the label matches hyphen-separated parts of the property name, not the whole
HasPartsOnly(r, text) ==
    /\ ~HasFullName(r, text)
    /\ \E part \in Range(Split(PropertyName(text), Hyphen)) :
          part # <<>> /\ Includes(ToLowerCase(r.label), part)

(* C2: in a ranked result, a candidate whose label (hyphens stripped)
   contains the full property name (hyphens stripped) comes before every
   candidate whose label matches only individual parts of the name. *)
C2_FullNameBeforeParts ==
    (IsCompletion /\ variant = "ranked")
    => \A i, j \in 1..Len(response.result) :
          (HasFullName(response.result[i], ReqFullLine)
              /\ HasPartsOnly(response.result[j], ReqFullLine)) => i < j

(* C10: in a ranked result, a candidate with a higher score comes before
   every candidate with a lower score. *)
C10_HigherScoreFirst ==
    (IsCompletion /\ variant = "ranked")
    => \A i, j \in 1..Len(response.result) :
          getTokenScore(ReqFullLine, response.result[i].label)
              > getTokenScore(ReqFullLine, response.result[j].label) => i < j

\* the raw value is a reference: it starts with "var("
IsReference(value) == StartsWith(value, VarOpen)

\* the raw value is var(<name>), closed
IsClosedReference(value) == IsReference(value) /\ value[Len(value)] = ")"

\* the name a closed reference holds
ReferencedName(value) == SubSeq(value, Len(VarOpen) + 1, Len(value) - 1)

\* the raw values of the tokens whose rendered name is varName
ValuesNamed(varName) ==
    { e.props.value : e \in { x \in Range(AllEntries) : createVarName(x.name) = varName } }

(* C5: the resolver does one hop and never fails: a closed reference
   var(<name>) resolves to the raw value of a catalog token whose rendered
   name is <name>, verbatim, even when that value is itself a reference; with
   no such token, and for a value that is not a reference, the result is the
   input; whatever the input, the result is the input or a token's raw value. *)
C5_OneHop ==
    response.op = "resolve"
    => LET value == response.value
           out   == response.result
       IN  /\ out = value \/ out \in { e.props.value : e \in Range(AllEntries) }
           /\ ~IsReference(value) => out = value
           /\ IsClosedReference(value) =>
                 IF ValuesNamed(ReferencedName(value)) # {}
                 THEN out \in ValuesNamed(ReferencedName(value))
                 ELSE out = value

\* a reference resolved to a value that is itself a reference to a catalog token
C5_Witness ==
    /\ response.op = "resolve"
    /\ IsClosedReference(response.value)
    /\ response.result # response.value
    /\ IsClosedReference(response.result)
    /\ ValuesNamed(ReferencedName(response.result)) # {}

\* the detail of a raw value, by its four shapes
DetailShape(value, resolved) ==
    LET px == <<" ", "(">> \o toPx(resolved) \o <<")">>
        suffix == Includes(resolved, Rem) /\ resolved # ZeroRem
    IN  CASE IsReference(value) /\ suffix   -> value \o Arrow \o resolved \o px
          [] IsReference(value) /\ ~suffix  -> value \o Arrow \o resolved
          [] ~IsReference(value) /\ suffix  -> resolved \o px
          [] ~IsReference(value) /\ ~suffix -> resolved

\* the candidates of the catalog beside the tokens they come from
DetailsFollowShape ==
    \A k \in 1..Len(tokenGroupCompletionItems) :
        \A i \in 1..Len(tokenGroupCompletionItems[k].items) :
            LET value == tokenGroups[k].tokens[i].props.value IN
            tokenGroupCompletionItems[k].items[i].detail
                = DetailShape(value, Resolve(value))

\* a hover ends with the detail of a token of the catalog, between backticks
HoverFollowsShape ==
    (IsHover /\ response.result # <<>>)
    => \E e \in Range(AllEntries) :
          /\ \E item \in Range(allTokenGroupCompletionItems) :
                /\ item.label = createVarName(e.name)
                /\ item.detail = DetailShape(e.props.value, Resolve(e.props.value))
          /\ EndsWith(response.result[1].value,
                      Backtick \o DetailShape(e.props.value, Resolve(e.props.value))
                          \o Backtick)

(* C6: the detail of every candidate, and the value line of every hover, has
   the shape its raw value calls for: "<original> -> <resolved> (<px>)",
   "<original> -> <resolved>", "<resolved> (<px>)" or "<resolved>", by
   whether the raw value is a reference and whether the resolved value
   contains "rem" and is not "0rem". *)
C6_DetailShapes == DetailsFollowShape /\ HoverFollowsShape

\* a hover on a catalog that holds a reference resolved to "0rem" and a literal in rem
C6_Witness ==
    /\ IsHover /\ response.result # <<>>
    /\ \E e \in Range(AllEntries) :
          /\ IsReference(e.props.value)
          /\ Resolve(e.props.value) = ZeroRem
    /\ \E e \in Range(AllEntries) :
          /\ ~IsReference(e.props.value)
          /\ Includes(e.props.value, Rem)

\* the cursor lies in the inclusive span of an occurrence
InSpan(match, character) ==
    character >= match.index /\ character <= match.index + Len(match.text)

\* the occurrences of var(<name>) on the line whose span holds the cursor and
\* whose name is the rendered name of the entry
OccurrencesOf(e) ==
    { m \in Range(MatchAll(ReqFullLine, 1)) :
        InSpan(m, response.character) /\ Trim(m.name) = createVarName(e.name) }

(* C7: hover returns a payload exactly when the cursor's offset within the
   line lies in the inclusive span of a var(<name>) occurrence whose name is
   a catalog token's rendered name, and the payload is that of such a token;
   the line's place in the document plays no part. *)
C7_HoverInSpanOnly ==
    IsHover
    => /\ (response.result # <<>>) <=>
              \E e \in Range(AllEntries) : OccurrencesOf(e) # {}
       /\ response.result # <<>> =>
              \E e \in Range(AllEntries) : \E m \in OccurrencesOf(e) :
                  response.result[1] = Contents(e, Trim(m.name))

\* the index of the first entry the lookup of a rendered name yields; 0 for none
LookupIndex(varName) ==
    IF \E i \in 1..Len(AllEntries) : IsNamed(AllEntries[i], varName)
    THEN CHOOSE i \in 1..Len(AllEntries) :
            /\ IsNamed(AllEntries[i], varName)
            /\ \A j \in 1..(i - 1) : ~IsNamed(AllEntries[j], varName)
    ELSE 0

(* C8: in a running service, looking up the rendered name of a token of the
   catalog yields that token and no other. *)
C8_LookupRoundTrip ==
    pc = "running"
    => \A i \in 1..Len(AllEntries) :
          LookupIndex(createVarName(AllEntries[i].name)) = i

(* C9: the service never runs on a dataset that holds a token name failing
   the naming convention, or two tokens with the same rendered name. *)
C9_LoadRejects ==
    pc = "running"
    => /\ \A i \in 1..Len(AllEntries) : isTokenName(AllEntries[i].name)
       /\ \A i, j \in 1..Len(AllEntries) :
             createVarName(AllEntries[i].name) = createVarName(AllEntries[j].name)
                 => i = j

\* the catalog's candidate at index k as a request on the line would return it
Declared(k) == WithSortText(allTokenGroupCompletionItems[k], ReqFullLine)

(* C11: in a ranked result, two candidates of equal score stand in the
   catalog's declaration order: the groups in the order the dataset declares
   them, then the tokens in the order their group declares them. *)
C11_TiesInDeclarationOrder ==
    (IsCompletion /\ variant = "ranked")
    => \A i, j \in 1..Len(response.result) :
          (i < j /\ getTokenScore(ReqFullLine, response.result[i].label)
                       = getTokenScore(ReqFullLine, response.result[j].label))
          => \E p, q \in 1..Len(allTokenGroupCompletionItems) :
                /\ p < q
                /\ Declared(p) = response.result[i]
                /\ Declared(q) = response.result[j]

\* the var(...) occurrences of the request's line whose span holds the cursor,
\* from left to right
OccurrencesAtCursor ==
    LET Holds(match) == InSpan(match, response.character)
    IN  SelectSeq(MatchAll(ReqFullLine, 1), Holds)

(* C12: hover is decided by the first var(...) occurrence, from left to
   right, whose span holds the cursor: not-found when there is none or when
   its name is not in the catalog, even if a later occurrence that also holds
   the cursor names a known token; otherwise the payload of the token it
   names. *)
C12_FirstOccurrenceDecides ==
    (IsHover /\ variant = "ranked")
    => IF OccurrencesAtCursor = <<>> THEN response.result = <<>>
       ELSE LET varName == Trim(OccurrencesAtCursor[1].name) IN
            IF LookupIndex(varName) = 0 THEN response.result = <<>>
            ELSE response.result
                    = <<Contents(AllEntries[LookupIndex(varName)], varName)>>

\* what the handler of the build answers to the request in the present state
Answer ==
    IF response.op = "completion"
    THEN IF variant = "ranked"
         THEN onCompletion(response.line, response.character)
         ELSE onCompletionBare(response.line, response.character)
    ELSE IF variant = "ranked"
         THEN onHover(response.line, response.character)
         ELSE onHoverOffsetAt(response.line, response.character)

(* C13: whatever completion and hover requests were served, the dataset and
   the two candidate projections are what the load built from the dataset,
   no request step changes them, and a request's result is what the handler
   answers from that catalog. *)
C13_CatalogNeverMutated ==
    /\ [](pc = "running"
            => /\ tokenGroupCompletionItems = BuildCompletionItems
               /\ allTokenGroupCompletionItems = FlatItems(BuildCompletionItems))
    /\ [](response.op \in {"completion", "hover"} => response.result = Answer)
    /\ [][UNCHANGED tokenGroups
            /\ (pc = "running" => UNCHANGED <<tokenGroupCompletionItems,
                                              allTokenGroupCompletionItems>>)]_vars

\* a ranked request was answered from the array allTokenGroupCompletionItems
\* itself, with several candidates to sort
C13_Witness ==
    /\ IsCompletion /\ variant = "ranked"
    /\ Includes(ReqLineToCursor, TwoHyphens)
    /\ SortedItemsArray(ReqFullLine, ReqFragment) = "allTokenGroupCompletionItems"
    /\ Len(response.result) >= 2
    /\ allTokenGroupCompletionItems = FlatItems(BuildCompletionItems)

====
